---- MODULE Spec2Model ----
(***************************************************************************)
(* A model of mxsniff (src/mxsniff/__init__.py): the WildcardDomainDict    *)
(* lookup structure, the provider registry built from providers.py, the    *)
(* domain normaliser, the canonicaliser, the mxsniff engine with its       *)
(* caller-supplied cache, the SMTP probe mxprobe, the mxbulksniff          *)
(* generator and mxsniff_and_probe.                                        *)
(*                                                                         *)
(* Strings that the code splits on '.' (hostnames, domains, patterns) are  *)
(* represented by the image of str.split('.'): a non-empty sequence of     *)
(* labels, some of which may be the empty string.  'example.com.' is       *)
(* <<"example","com","">>, '.' is <<"","">> and '' is <<"">>.  split is    *)
(* injective, so equality of strings is equality of these sequences.       *)
(***************************************************************************)
EXTENDS Integers, Sequences, FiniteSets, TLC

VARIABLES
    tree,          \* WildcardDomainDict.tree: node path -> terminal value or NoValue
    inserted,      \* the __setitem__ calls made so far, in order
    lookupKey,     \* key of the last __getitem__/get against the current tree
    lookupResult,  \* its outcome: a value, KeyError, or NoLookup
    cache,         \* the caller's cache dict: domain -> stored result record
    cacheBefore,   \* the cache as it was when the last call started
    call,          \* arguments of the last mxsniff call, or NoCall
    outcome,       \* what the last call did: its path, DNS use (and how the
                   \* resolver answered), and its return value or error
    history,       \* per call made with the cache: domain, path taken, DNS queries
    canonIn,       \* arguments of a canonical_email call
    canonOut,      \* whether it has returned, and what
    probeArgs,     \* arguments of the mxprobe call in progress
    probe,         \* its locals, where it stands, and what the servers saw
    bulk           \* an mxbulksniff generator: its items, its cache, what it
                   \* has yielded and which domains it asked the resolver for

dictVars == <<tree, inserted, lookupKey, lookupResult>>
sniffVars == <<cache, cacheBefore, call, outcome, history>>
canonVars == <<canonIn, canonOut>>
probeVars == <<probeArgs, probe>>
vars == <<tree, inserted, lookupKey, lookupResult,
          cache, cacheBefore, call, outcome, history,
          canonIn, canonOut, probeArgs, probe, bulk>>

\* What an operation of one component leaves alone.
notDictVars == <<sniffVars, canonVars, probeVars, bulk>>
notSniffVars == <<dictVars, canonVars, probeVars, bulk>>
notCanonVars == <<dictVars, sniffVars, probeVars, bulk>>
notProbeVars == <<dictVars, sniffVars, canonVars, bulk>>
notBulkVars == <<dictVars, sniffVars, canonVars, probeVars>>

(***************************************************************************)
(* Bounds of the model.                                                    *)
(***************************************************************************)
MaxInserts == 2
MaxCalls == 2
MaxMailbox == 3
MaxServers == 2
MaxItems == 2

(***************************************************************************)
(* Python values.                                                          *)
(***************************************************************************)
None == "None"
NoValue == "<no _value>"
KeyError == "KeyError"
NoLookup == "<no lookup>"

Reverse(s) == [i \in 1..Len(s) |-> s[Len(s) + 1 - i]]

\* str.lower() on one label of the alphabet used here.
LowerLabel(l) ==
    CASE l = "COM" -> "com"
      [] l = "EXAMPLE" -> "example"
      [] l = "Gmail" -> "gmail"
      [] l = "ASPMX" -> "aspmx"
      [] l = "Example" -> "example"
      [] l = "GoogleMail" -> "googlemail"
      [] OTHER -> l

\* str.lower() on a dotted string.
Lower(s) == [i \in 1..Len(s) |-> LowerLabel(s[i])]

NonEmptyLabel(l) == l # ""

(***************************************************************************)
(* WildcardDomainDict                                                      *)
(***************************************************************************)
\* _makeparts: lowercase, split on '.', remove every empty part, reverse.
_makeparts(key) == Reverse(SelectSeq(Lower(key), NonEmptyLabel))

EmptyTree == (<<>> :> NoValue)

\* __setitem__: walk down from the root creating missing nodes, then store
\* the value in the last node's _value slot.
SetItemTree(t, key, value) ==
    LET parts == _makeparts(key)
        path  == {SubSeq(parts, 1, k) : k \in 0..Len(parts)}
    IN  [p \in (DOMAIN t) \cup path |->
            IF p = parts THEN value
            ELSE IF p \in DOMAIN t THEN t[p] ELSE NoValue]

\* A lookup whose wildcard child also swallows the rest of the hostname.
RECURSIVE WalkGreedyStar(_, _, _, _)
WalkGreedyStar(t, parts, i, node) ==
    IF i > Len(parts)
    THEN IF t[node] # NoValue THEN t[node] ELSE KeyError
    ELSE LET item == parts[i]
             last == (i = Len(parts))
             lit  == Append(node, item)
             star == Append(node, "*")
         IN  IF lit \in DOMAIN t /\ (~last \/ t[lit] # NoValue)
             THEN WalkGreedyStar(t, parts, i + 1, lit)
             ELSE IF star \in DOMAIN t
             THEN IF t[star] # NoValue THEN t[star]
                  ELSE WalkGreedyStar(t, parts, i + 1, star)
             ELSE KeyError

\* The loop of __getitem__ from position i at node `node`, and the test
\* for _value after it.
RECURSIVE Walk(_, _, _, _)
Walk(t, parts, i, node) ==
    IF i > Len(parts)
    THEN IF t[node] # NoValue THEN t[node] ELSE KeyError
    ELSE LET item == parts[i]
             last == (i = Len(parts))
             lit  == Append(node, item)
             star == Append(node, "*")
         IN  IF lit \in DOMAIN t /\ (~last \/ t[lit] # NoValue)
             THEN Walk(t, parts, i + 1, lit)
             ELSE IF star \in DOMAIN t
             THEN Walk(t, parts, i + 1, star)
             ELSE KeyError

\* __getitem__: the value, or KeyError when it raises.
GetItemTree(t, key) == Walk(t, _makeparts(key), 1, <<>>)

\* get(key, default): __getitem__ with KeyError turned into the default.
DictGet(t, key, default) ==
    LET r == GetItemTree(t, key) IN IF r = KeyError THEN default ELSE r

(***************************************************************************)
(* The WildcardDomainDict on its own: any sequence of insertions and        *)
(* lookups on a dict that starts empty.                                     *)
(***************************************************************************)
DictValues == {"P", "Q"}

\* Keys given to __setitem__.
DictPatterns ==
    { <<"*", "example", "com">>,
      <<"*", "*", "example", "com">>,
      <<"example", "com">>,
      <<"EXAMPLE", "COM", "">>,
      <<"example", "", "com">>,
      <<"mail", "example", "com">>,
      <<"*", "am0", "yahoodns", "net">>,
      <<"*", "mail", "*", "yahoodns", "net">> }

\* Keys given to __getitem__ and get.
DictHostnames ==
    { <<"mail", "example", "com">>,
      <<"example", "com">>,
      <<"a", "b", "example", "com">>,
      <<"EXAMPLE", "com", "">>,
      <<"example", "", "com">>,
      <<"", "example", "com">>,
      <<"x", "mail", "am0", "yahoodns", "net">>,
      <<"x", "am0", "yahoodns", "net">>,
      <<"">> }

\* d[key] = value
SetItem(key, value) ==
    /\ Len(inserted) < MaxInserts
    /\ tree' = SetItemTree(tree, key, value)
    /\ inserted' = Append(inserted, [key |-> key, value |-> value])
    /\ lookupKey' = <<>>
    /\ lookupResult' = NoLookup
    /\ UNCHANGED notDictVars

\* d[key]
GetItem(key) ==
    /\ lookupKey' = key
    /\ lookupResult' = GetItemTree(tree, key)
    /\ UNCHANGED <<tree, inserted>>
    /\ UNCHANGED notDictVars

\* d.get(key)
Get(key) ==
    /\ lookupKey' = key
    /\ lookupResult' = DictGet(tree, key, None)
    /\ UNCHANGED <<tree, inserted>>
    /\ UNCHANGED notDictVars

(***************************************************************************)
(* Provider registry (providers.py), restricted to three of its providers. *)
(* A missing optional key reads as the default .get() gives it.            *)
(***************************************************************************)
NoFlags == [lowercase |-> FALSE, strip_periods |-> FALSE,
            substitute_domains |-> <<>>]

\* providers: the order of the keys is the order of the dict.
ProviderNames == <<"google-gmail", "google-apps", "yahoo-mail">>

all_providers ==
    [n \in {"google-gmail", "google-apps", "yahoo-mail"} |->
        CASE n = "google-gmail" ->
               [mx |-> << <<"gmail-smtp-in", "l", "google", "com">>,
                          <<"*", "gmail-smtp-in", "l", "google", "com">> >>,
                title |-> "Gmail", note |-> None, url |-> "https://gmail.com/",
                domains |-> << <<"gmail", "com">>, <<"googlemail", "com">> >>,
                public |-> TRUE,
                canonical_flags |->
                    [lowercase |-> TRUE, strip_periods |-> TRUE,
                     substitute_domains |->
                         (<<"googlemail", "com">> :> <<"gmail", "com">>)]]
          [] n = "google-apps" ->
               [mx |-> << <<"aspmx", "l", "google", "com">>,
                          <<"*", "aspmx", "l", "google", "com">>,
                          <<"*", "googlemail", "com">> >>,
                title |-> "G Suite", note |-> None, url |-> None,
                domains |-> <<>>,
                public |-> FALSE,
                canonical_flags |->
                    [lowercase |-> TRUE, strip_periods |-> TRUE,
                     substitute_domains |-> <<>>]]
          [] n = "yahoo-mail" ->
               [mx |-> << <<"*", "am0", "yahoodns", "net">>,
                          <<"*", "mail", "*", "yahoodns", "net">>,
                          <<"*", "mail", "yahoo", "co", "jp">> >>,
                title |-> "Yahoo Mail", note |-> None, url |-> None,
                domains |-> << <<"rocketmail", "com">>, <<"yahoo", "com">> >>,
                public |-> TRUE,
                canonical_flags |->
                    [lowercase |-> TRUE, strip_periods |-> FALSE,
                     substitute_domains |->
                         (<<"rocketmail", "com">> :> <<"yahoo", "com">>)]]]

public_domains ==
    { <<"gmail", "com">>, <<"googlemail", "com">>, <<"rocketmail", "com">>,
      <<"yahoo", "com">> }

\* The reserved labels of the match list.
ReservedLabels == {"self", "nullmx", "unknown", "nomx"}

\* __populate_dicts, the provider_mx half: every MX pattern of every
\* provider is inserted under the provider's name, in table order.
RECURSIVE PopulateMx(_, _, _)
PopulateMx(t, i, j) ==
    IF i > Len(ProviderNames) THEN t
    ELSE LET name == ProviderNames[i]
             mx   == all_providers[name].mx
         IN  IF j > Len(mx) THEN PopulateMx(t, i + 1, 1)
             ELSE PopulateMx(SetItemTree(t, mx[j], name), i, j + 1)

provider_mx == PopulateMx(EmptyTree, 1, 1)

\* __populate_dicts, the provider_domains half: a flat dict, a later
\* provider overwriting an earlier one for the same domain.
RECURSIVE PopulateDomains(_, _, _)
PopulateDomains(pd, i, j) ==
    IF i > Len(ProviderNames) THEN pd
    ELSE LET name == ProviderNames[i]
             ds   == all_providers[name].domains
         IN  IF j > Len(ds) THEN PopulateDomains(pd, i + 1, 1)
             ELSE PopulateDomains(
                      [d \in (DOMAIN pd) \cup {ds[j]} |->
                          IF d = ds[j] THEN name ELSE pd[d]],
                      i, j + 1)

provider_domains == PopulateDomains(<<>>, 1, 1)

\* provider_info: the public fields of a provider.
provider_info(provider) ==
    [name |-> provider,
     title |-> all_providers[provider].title,
     note |-> all_providers[provider].note,
     url |-> all_providers[provider].url,
     public |-> all_providers[provider].public]

(***************************************************************************)
(* Inputs of mxsniff.  A query string is kept in parsed form: whether it   *)
(* is an address ('@' in it), a URL ('//' in it) or a bare name, the       *)
(* display name around the address, the text before the '@' as a sequence  *)
(* of characters, and the host as dotted labels.                           *)
(***************************************************************************)
MkQuery(k, n, m, h) == [kind |-> k, name |-> n, mailbox |-> m, host |-> h]

Queries ==
    { MkQuery("email", "Name", <<"A", ".", "b", "+", "t">>, <<"Gmail", "com">>),
      MkQuery("domain", "", <<>>, <<"gmail", "com">>),
      MkQuery("domain", "", <<>>, <<"google", "com">>),
      MkQuery("domain", "", <<>>, <<"com">>) }

\* str.lower() on one character.
LowerChar(c) == IF c = "A" THEN "a" ELSE c

\* The registrable-domain classifier (tldextract(...).registered_domain):
\* the public suffix and the label before it, or '' when either is missing.
PublicSuffixes == {"com", "net", "org"}

registered_domain(host) ==
    LET ls == SelectSeq(Lower(host), NonEmptyLabel)
        n  == Len(ls)
    IN  IF n >= 2 /\ ls[n] \in PublicSuffixes
        THEN <<ls[n - 1], ls[n]>>
        ELSE <<"">>

\* email.utils.parseaddr(s)[1]: the bare address without its display name.
\* `at` tells whether the text holds an '@'.
parseaddr(q) ==
    IF q.kind = "email"
    THEN [at |-> TRUE, mailbox |-> q.mailbox, domain |-> q.host]
    ELSE [at |-> FALSE, mailbox |-> <<>>, domain |-> q.host]

\* pyisemail.is_email: an '@', a dot-atom before it and a name after it.
is_email(addr) ==
    /\ addr.at
    /\ Len(addr.mailbox) > 0
    /\ addr.mailbox[1] # "."
    /\ addr.mailbox[Len(addr.mailbox)] # "."
    /\ \A i \in 1..(Len(addr.mailbox) - 1) :
           ~(addr.mailbox[i] = "." /\ addr.mailbox[i + 1] = ".")
    /\ \A i \in 1..Len(addr.domain) : addr.domain[i] # ""

\* The canonical address that is absent (Python's None).
Absent == [mailbox |-> <<>>, domain |-> <<>>]

NotPlus(c) == c # "+"
NotPeriod(c) == c # "."

\* A canonicaliser that lowercases the domain only when asked to lowercase.
canonical_email_case_kept(email, lowercase, strip_periods, substitute_domains) ==
    LET addr == parseaddr(email)
        m0 == addr.mailbox
        plus == {i \in 1..Len(m0) : m0[i] = "+"}
        first == CHOOSE i \in plus : \A j \in plus : i <= j
        m1 == IF plus # {} THEN SubSeq(m0, 1, first - 1) ELSE m0
        m2 == IF strip_periods THEN SelectSeq(m1, NotPeriod) ELSE m1
        m3 == IF lowercase THEN [i \in 1..Len(m2) |-> LowerChar(m2[i])] ELSE m2
        d1 == IF lowercase THEN Lower(addr.domain) ELSE addr.domain
        d2 == IF d1 \in DOMAIN substitute_domains
              THEN substitute_domains[d1] ELSE d1
    IN  IF ~is_email(addr) THEN Absent
        ELSE [mailbox |-> m3, domain |-> d2]

\* canonical_email
canonical_email(email, lowercase, strip_periods, substitute_domains) ==
    LET addr == parseaddr(email)
        m0 == addr.mailbox
        plus == {i \in 1..Len(m0) : m0[i] = "+"}
        first == CHOOSE i \in plus : \A j \in plus : i <= j
        m1 == IF plus # {} THEN SubSeq(m0, 1, first - 1) ELSE m0
        m2 == IF strip_periods THEN SelectSeq(m1, NotPeriod) ELSE m1
        m3 == IF lowercase THEN [i \in 1..Len(m2) |-> LowerChar(m2[i])] ELSE m2
        d1 == Lower(addr.domain)
        d2 == IF d1 \in DOMAIN substitute_domains
              THEN substitute_domains[d1] ELSE d1
    IN  IF ~is_email(addr) THEN Absent
        ELSE [mailbox |-> m3, domain |-> d2]

\* get_domain
get_domain(email_or_domain) ==
    IF email_or_domain.kind = "email"
    THEN Lower(parseaddr(email_or_domain).domain)
    ELSE IF email_or_domain.kind = "url"
    THEN Lower(registered_domain(email_or_domain.host))
    ELSE Lower(email_or_domain.host)

(***************************************************************************)
(* The DNS collaborator: what resolver.query(domain, 'MX') does.           *)
(***************************************************************************)
Root == <<"", "">>   \* the exchange '.'

MkAnswer(rdata) == [kind |-> "answer", rdata |-> rdata]
MkDnsError(k) == [kind |-> k, rdata |-> <<>>]
NoDns == MkDnsError("none")

ZeroResultErrors == {"NoAnswer", "NXDOMAIN", "NoNameservers"}
OtherDnsErrors == {"Timeout"}

\* An answer is the records of the RRset in the order the resolver hands
\* them over, each as (preference, exchange.to_text(omit_final_dot=True)).
DnsOutcomes ==
    { MkAnswer(<< <<0, Root>> >>),
      MkAnswer(<< <<10, <<"smtp", "google", "com">> >> >>),
      MkAnswer(<< <<10, <<"ASPMX", "l", "google", "com">> >>,
                  <<5, <<"gmail-smtp-in", "l", "google", "com">> >>,
                  <<20, <<"alt1", "gmail-smtp-in", "l", "google", "com">> >> >>),
      MkAnswer(<< <<20, <<"alt1", "gmail-smtp-in", "l", "google", "com">> >>,
                  <<5, <<"gmail-smtp-in", "l", "google", "com">> >>,
                  <<10, <<"ASPMX", "l", "google", "com">> >> >>),
      MkAnswer(<< <<1, <<"x", "mail", "am0", "yahoodns", "net">> >> >>),
      MkAnswer(<< <<0, <<"smtp", "google", "com">> >>, <<0, Root>> >>) }
    \cup {MkDnsError(k) : k \in ZeroResultErrors \cup OtherDnsErrors}

\* Python's order on the exchange strings that occur, smallest first.
SortedHostnames ==
    << Root,
       <<"alt1", "gmail-smtp-in", "l", "google", "com">>,
       <<"aspmx", "l", "google", "com">>,
       <<"gmail-smtp-in", "l", "google", "com">>,
       <<"smtp", "google", "com">>,
       <<"x", "mail", "am0", "yahoodns", "net">> >>

StrRank(h) == CHOOSE i \in 1..Len(SortedHostnames) : SortedHostnames[i] = h

\* Tuple comparison of two (preference, exchange) pairs.
TupleLess(a, b) ==
    \/ a[1] < b[1]
    \/ a[1] = b[1] /\ StrRank(a[2]) < StrRank(b[2])

\* The pairs in descending order.
RECURSIVE sorted_descending(_)
sorted_descending(S) ==
    IF S = {} THEN <<>>
    ELSE LET m == CHOOSE x \in S : \A y \in S \ {x} : TupleLess(y, x)
         IN  <<m>> \o sorted_descending(S \ {m})

\* sorted() of a collection of distinct pairs.
RECURSIVE sorted(_)
sorted(S) ==
    IF S = {} THEN <<>>
    ELSE LET m == CHOOSE x \in S : \A y \in S \ {x} : TupleLess(x, y)
         IN  <<m>> \o sorted(S \ {m})

(***************************************************************************)
(* mxsniff                                                                 *)
(***************************************************************************)
InSeq(x, s) == \E i \in 1..Len(s) : s[i] = x

\* The generator handed to sorted(): each rdata as (preference, lowercased
\* exchange text).  sorted() consumes all of it before ordering.
LoweredAnswers(rdata) ==
    { <<rdata[i][1], Lower(rdata[i][2])>> : i \in 1..Len(rdata) }

\* The loop over mx_answers: collects the registrable domains of the
\* exchanges in tld, and the providers found by provider_mx.get, first seen
\* first and once each, with their provider_info alongside.
RECURSIVE ScanAnswers(_, _, _)
ScanAnswers(mx_answers, i, acc) ==
    IF i > Len(mx_answers) THEN acc
    ELSE LET exchange == mx_answers[i][2]
             rdomain  == registered_domain(exchange)
             tld1     == IF InSeq(rdomain, acc.tld) THEN acc.tld
                         ELSE Append(acc.tld, rdomain)
             provider == DictGet(provider_mx, exchange, None)
             found    == provider # None /\ ~InSeq(provider, acc.matches)
         IN  ScanAnswers(mx_answers, i + 1,
                 [tld |-> tld1,
                  matches |-> IF found THEN Append(acc.matches, provider)
                              ELSE acc.matches,
                  rproviders |-> IF found
                                 THEN Append(acc.rproviders, provider_info(provider))
                                 ELSE acc.rproviders])

\* A classification that tests for the null MX before the self-hosted case.
ClassifyNullFirst(domain, tld, matches, mx_answers) ==
    IF matches # <<>> THEN matches
    ELSE IF mx_answers # <<>> /\ mx_answers[1][2] = Root THEN <<"nullmx">>
    ELSE IF InSeq(registered_domain(domain), tld) THEN <<"self">>
    ELSE IF mx_answers # <<>> THEN <<"unknown">>
    ELSE <<"nomx">>

\* The `if not matches:` block: the reserved label when no provider matched.
Classify(domain, tld, matches, mx_answers) ==
    IF matches # <<>> THEN matches
    ELSE IF InSeq(registered_domain(domain), tld) THEN <<"self">>
    ELSE IF mx_answers # <<>>
         THEN IF mx_answers[1][2] = Root THEN <<"nullmx">> ELSE <<"unknown">>
    ELSE <<"nomx">>

\* all_providers.get(matches[0], {}).get('canonical_flags', {})
canonical_flags(matches) ==
    IF matches # <<>> /\ matches[1] \in DOMAIN all_providers
    THEN all_providers[matches[1]].canonical_flags
    ELSE NoFlags

\* A cache hit that hands back the stored record as it is.
CachedAsStored(email_or_domain, rec) == rec

\* The cache hit: dict(cache[domain]) with its query replaced.
CachedCopy(email_or_domain, rec) == [rec EXCEPT !.query = email_or_domain]

\* A public flag that looks at the matched providers only.
IsPublicByProvider(domain, rproviders) ==
    \E i \in 1..Len(rproviders) : rproviders[i].public

\* `domain in public_domains or any(p['public'] for p in rproviders)`
IsPublic(domain, rproviders) ==
    \/ domain \in public_domains
    \/ \E i \in 1..Len(rproviders) : rproviders[i].public

\* The result dict assembled at the end of mxsniff.
MakeResult(email_or_domain, domain, matches, mx_answers, rproviders) ==
    LET f == canonical_flags(matches)
    IN  [query |-> email_or_domain,
         domain |-> domain,
         match |-> matches,
         mx |-> mx_answers,
         providers |-> rproviders,
         public |-> IsPublic(domain, rproviders),
         canonical |-> canonical_email(email_or_domain, f.lowercase,
                           f.strip_periods, f.substitute_domains)]

NoResult == MakeResult(MkQuery("none", "", <<>>, <<>>), <<>>, <<>>, <<>>, <<>>)
NoError == [exc |-> None, cause |-> None, domain |-> <<>>]

\* A store that does not write the record.
StoreNothing(c, domain, result) == c

\* cache[domain] = result
Store(c, domain, result) ==
    [d \in (DOMAIN c) \cup {domain} |-> IF d = domain THEN result ELSE c[d]]

\* A static test that ignores the use_static_domains argument.
UseStaticAlways(use_static_domains, domain) == domain \in DOMAIN provider_domains

\* `use_static_domains and domain in provider_domains`
UseStatic(use_static_domains, domain) ==
    use_static_domains /\ domain \in DOMAIN provider_domains

\* A fault handler that surfaces every failed query unless told to ignore.
RaisesOnAnyError(dns, ignore_errors) == dns.kind # "answer" /\ ~ignore_errors

\* A fault handler that swallows every failed query.
RaisesNever(dns, ignore_errors) == FALSE

\* The except clauses around the query: NoAnswer, NXDOMAIN and NoNameservers
\* pass; any other DNSException passes if ignore_errors and otherwise is
\* re-raised as MxLookupError(e, domain).
Raises(dns, ignore_errors) == dns.kind \in OtherDnsErrors /\ ~ignore_errors

\* The body of mxsniff past the cache test, up to the result dict: the
\* static map or the sorted MX answers, the scan for providers, the reserved
\* label and the result assembled from them, when the resolver, if asked,
\* behaves as `dns` and the call does not raise.
Resolve(email_or_domain, use_static_domains, dns) ==
    LET domain == get_domain(email_or_domain)
        static == UseStatic(use_static_domains, domain)
        empty  == [tld |-> <<>>, matches |-> <<>>, rproviders |-> <<>>]
        mx_answers ==
            IF ~static /\ dns.kind = "answer"
            THEN sorted(LoweredAnswers(dns.rdata)) ELSE <<>>
        scan ==
            IF static
            THEN [tld |-> <<>>,
                  matches |-> <<provider_domains[domain]>>,
                  rproviders |-> <<provider_info(provider_domains[domain])>>]
            ELSE ScanAnswers(mx_answers, 1, empty)
        matches == Classify(domain, scan.tld, scan.matches, mx_answers)
    IN  MakeResult(email_or_domain, domain, matches, mx_answers, scan.rproviders)

\* Resolve over the inputs of the model, evaluated once.
Resolved ==
    [q \in Queries, us \in BOOLEAN, dns \in DnsOutcomes |-> Resolve(q, us, dns)]

\* mxsniff(email_or_domain, ignore_errors, cache, use_static_domains) when
\* the resolver, if asked, behaves as `dns`.  `c` is the cache dict and
\* use_cache tells whether one was passed (cache is not None).  Gives the
\* path taken, the number of MX queries issued, the returned result or the
\* raised error, and the cache afterwards.
mxsniff(email_or_domain, ignore_errors, use_cache, c, use_static_domains, dns) ==
    LET domain == get_domain(email_or_domain)
        static == UseStatic(use_static_domains, domain)
        result == Resolved[email_or_domain, use_static_domains, dns]
    IN  IF use_cache /\ domain \in DOMAIN c
        THEN [path |-> "cached", queries |-> 0, raised |-> FALSE,
              result |-> CachedCopy(email_or_domain, c[domain]),
              error |-> NoError, cache |-> c]
        ELSE IF ~static /\ Raises(dns, ignore_errors)
        THEN [path |-> "dns", queries |-> 1, raised |-> TRUE,
              result |-> NoResult,
              error |-> [exc |-> "MxLookupError", cause |-> dns.kind,
                         domain |-> domain],
              cache |-> c]
        ELSE [path |-> IF static THEN "static" ELSE "dns",
              queries |-> IF static THEN 0 ELSE 1,
              raised |-> FALSE,
              result |-> result,
              error |-> NoError,
              cache |-> IF use_cache THEN Store(c, domain, result) ELSE c]

NoCall == [fn |-> "none", query |-> MkQuery("none", "", <<>>, <<>>),
           ignore_errors |-> FALSE, use_cache |-> FALSE,
           use_static_domains |-> FALSE, probe_email |-> FALSE]
NoOutcome == [path |-> "none", queries |-> 0, raised |-> FALSE,
              result |-> NoResult, error |-> NoError, dns |-> NoDns,
              probed |-> [result |-> "none", code |-> "None", message |-> "None"]]

\* Which resolver behaviours a call can meet: the resolver is only asked
\* when neither the cache nor the static map answers.
AsksResolver(q, use_cache, use_static_domains) ==
    /\ ~(use_cache /\ get_domain(q) \in DOMAIN cache)
    /\ ~UseStatic(use_static_domains, get_domain(q))

\* One call of mxsniff by the caller that owns `cache`.
Sniff(q, ignore_errors, use_cache, use_static_domains, dns) ==
    \E r \in {mxsniff(q, ignore_errors, use_cache, cache, use_static_domains, dns)} :
        /\ call' = [fn |-> "mxsniff", query |-> q,
                    ignore_errors |-> ignore_errors, use_cache |-> use_cache,
                    use_static_domains |-> use_static_domains,
                    probe_email |-> FALSE]
        /\ outcome' = [path |-> r.path, queries |-> r.queries,
                       raised |-> r.raised, result |-> r.result,
                       error |-> r.error,
                       dns |-> IF r.queries = 1 THEN dns ELSE NoDns,
                       probed |-> NoOutcome.probed]
        /\ cacheBefore' = cache
        /\ cache' = r.cache
        /\ history' = Append(history,
                          [domain |-> get_domain(q), use_cache |-> use_cache,
                           path |-> r.path, queries |-> r.queries,
                           raised |-> r.raised])
        /\ UNCHANGED notSniffVars

\* A call that is answered by the cache or the static map: no resolver.
SniffLocal(q, ignore_errors, use_cache, use_static_domains) ==
    /\ Len(history) < MaxCalls
    /\ ~AsksResolver(q, use_cache, use_static_domains)
    /\ Sniff(q, ignore_errors, use_cache, use_static_domains, MkDnsError("NoAnswer"))

\* A call that asks the resolver, which answers or fails as `dns`.
SniffDns(q, ignore_errors, use_cache, use_static_domains, dns) ==
    /\ Len(history) < MaxCalls
    /\ AsksResolver(q, use_cache, use_static_domains)
    /\ Sniff(q, ignore_errors, use_cache, use_static_domains, dns)

(***************************************************************************)
(* canonical_email called on its own.                                      *)
(***************************************************************************)
MailboxChars == {"A", "b", ".", "+"}
Mailboxes == UNION {[1..n -> MailboxChars] : n \in 0..MaxMailbox}

\* 'Name <a.b+tag@Example.com>'
ExampleAddress ==
    MkQuery("email", "Name", <<"a", ".", "b", "+", "t", "a", "g">>,
            <<"Example", "com">>)

\* The texts handed to canonical_email: addresses with and without a
\* display name, and texts without an '@'.
CanonEmails ==
    {MkQuery("email", "", m, d) :
        m \in Mailboxes, d \in {<<"Example", "com">>, <<"GoogleMail", "com">>}}
    \cup {ExampleAddress,
          MkQuery("domain", "", <<>>, <<"Example", "com">>),
          MkQuery("email", "", <<"b">>, <<"Example", "", "com">>)}

SubstituteMaps == {<<>>, <<"googlemail", "com">> :> <<"gmail", "com">>}

CanonInputs ==
    [email : CanonEmails, lowercase : BOOLEAN, strip_periods : BOOLEAN,
     substitute_domains : SubstituteMaps]

NoCanonInput ==
    [email |-> MkQuery("none", "", <<>>, <<>>), lowercase |-> FALSE,
     strip_periods |-> FALSE, substitute_domains |-> <<>>]
NotReturned == [done |-> FALSE, raised |-> FALSE, value |-> Absent]

\* canonical_email(email, lowercase, strip_periods, substitute_domains)
\* runs to its return.
Canonicalize ==
    /\ canonIn # NoCanonInput
    /\ ~canonOut.done
    /\ canonOut' = [done |-> TRUE, raised |-> FALSE,
                    value |-> canonical_email(canonIn.email, canonIn.lowercase,
                                  canonIn.strip_periods,
                                  canonIn.substitute_domains)]
    /\ UNCHANGED canonIn
    /\ UNCHANGED notCanonVars

CanonIdle ==
    /\ canonIn = NoCanonInput
    /\ canonOut = NotReturned

(***************************************************************************)
(* mxprobe.  What a candidate server does when contacted is a record of    *)
(* its replies: to the connection (the 220 greeting, a refused connection, *)
(* or a 554 greeting, on which smtplib.SMTP raises SMTPConnectError), to   *)
(* EHLO/HELO (250, a 501 on which smtplib raises SMTPHeloError, or a       *)
(* closed connection, SMTPServerDisconnected), to MAIL FROM and to RCPT TO *)
(* (code and message).  SMTP codes are kept as text; "None" is None.       *)
(***************************************************************************)
Server(connect, helo, mail, rcpt, msg) ==
    [connect |-> connect, helo |-> helo, mail |-> mail, rcpt |-> rcpt, msg |-> msg]

ServerBehaviours ==
    { Server("refused", "250", "250", "250", "ok"),
      Server("554", "250", "250", "250", "ok"),
      Server("220", "501", "250", "250", "ok"),
      Server("220", "closed", "250", "250", "ok"),
      Server("220", "250", "550", "250", "relay denied"),
      Server("220", "250", "250", "250", "ok"),
      Server("220", "250", "250", "252", "cannot verify"),
      Server("220", "250", "250", "450", "4.2.1 busy"),
      Server("220", "250", "250", "550", "#5.1.1 unknown"),
      Server("220", "250", "250", "550", "no such user"),
      Server("220", "250", "250", "554", "rejected") }

\* The RCPT codes listed as the recipient being refused.
FailCodes ==
    {"450", "451", "452", "510", "512", "515", "521", "522", "531", "533",
     "540", "550", "551", "552", "553"}

\* msg.startswith(('4.', '#4.')) and msg.startswith(('5.', '#5.'))
StartsWith4(msg) == msg \in {"4.2.1 busy"}
StartsWith5(msg) == msg \in {"#5.1.1 unknown"}

NoProbeResult == [result |-> "none", code |-> "None", message |-> "None"]
ResultCodeMessage(r, c, m) == [result |-> r, code |-> c, message |-> m]

\* A reading of the RCPT reply that takes only acceptance as a result.
RcptResultPassOnly(code, msg) ==
    IF code = "250" THEN ResultCodeMessage("pass", code, msg)
    ELSE IF code \in {"251", "252", "253"}
    THEN ResultCodeMessage("pass-unverified", code, msg)
    ELSE NoProbeResult

\* probe_result from the reply to RCPT TO; none for an unknown code.
RcptResult(code, msg) ==
    IF code = "250" THEN ResultCodeMessage("pass", code, msg)
    ELSE IF code \in {"251", "252", "253"}
    THEN ResultCodeMessage("pass-unverified", code, msg)
    ELSE IF code \in FailCodes
    THEN ResultCodeMessage(
             IF StartsWith4(msg) THEN "soft-fail"
             ELSE IF StartsWith5(msg) THEN "hard-fail" ELSE "fail",
             code, msg)
    ELSE NoProbeResult

\* The mx argument: a list of hostnames, or a single hostname as a str.
CandidateNames ==
    << <<"mx1", "example", "com">>, <<"mx2", "example", "com">>,
       <<"mx3", "example", "com">>, <<"mx4", "example", "com">> >>
MxArguments ==
    {[is_str |-> FALSE, hosts |-> SubSeq(CandidateNames, 1, n)] : n \in 0..MaxServers}
    \cup {[is_str |-> TRUE, hosts |-> SubSeq(CandidateNames, 1, 1)]}

ProbeEmails ==
    { MkQuery("email", "", <<"b">>, <<"Example", "com">>),
      MkQuery("domain", "", <<>>, <<"Example", "com">>) }

NoProbeArgs == [email |-> MkQuery("none", "", <<>>, <<>>),
                mx |-> [is_str |-> FALSE, hosts |-> <<>>]]
ProbeIdleState ==
    [pc |-> "idle", mx |-> <<>>, i |-> 0, smtp |-> 0,
     error_code |-> "None", error_msg |-> "None",
     contacted |-> <<>>, met |-> <<>>, cleaned |-> <<>>,
     returned |-> NoProbeResult, raised |-> "None"]

\* mxprobe up to its loop: the address is parsed and validated, an empty mx
\* becomes the address's own domain and a str mx a one-element list.
ProbeEntered(email, mx) ==
    IF ~is_email(parseaddr(email))
    THEN [ProbeIdleState EXCEPT
              !.pc = "returned",
              !.returned = ResultCodeMessage("invalid", "None", "None")]
    ELSE [ProbeIdleState EXCEPT
              !.pc = "loop", !.i = 1,
              !.mx = IF mx.hosts = <<>> THEN <<parseaddr(email).domain>>
                     ELSE mx.hosts]

ProbeBegin(email, mx) ==
    /\ probe.pc = "idle"
    /\ probeArgs' = [email |-> email, mx |-> mx]
    /\ probe' = ProbeEntered(email, mx)
    /\ UNCHANGED notProbeVars

\* Where one pass of the loop body leaves the locals: `continue` and the
\* end of the body move on to the next candidate.
NextCandidate(p, smtp, code, msg) ==
    [p EXCEPT !.i = p.i + 1, !.smtp = smtp, !.error_code = code, !.error_msg = msg]

\* The statements after the try block: rset() and quit() on whatever `smtp`
\* is bound to, then the return of a probe_result.  With `smtp` unbound the
\* read of it raises UnboundLocalError out of mxprobe.
AfterTry(p, smtp, code, msg, probe_result) ==
    IF smtp = 0
    THEN [p EXCEPT !.pc = "raised", !.raised = "UnboundLocalError",
                   !.error_code = code, !.error_msg = msg]
    ELSE IF probe_result # NoProbeResult
    THEN [p EXCEPT !.pc = "returned", !.returned = probe_result, !.smtp = smtp,
                   !.cleaned = Append(p.cleaned, smtp)]
    ELSE [NextCandidate(p, smtp, code, msg) EXCEPT
                   !.cleaned = Append(p.cleaned, smtp)]

\* One pass of the loop body for candidate p.i, whose server behaves as b.
TryCandidate(p, b) ==
    IF b.connect = "refused"          \* socket.error: continue
    THEN NextCandidate(p, p.smtp, "None", "Connection refused")
    ELSE IF b.connect # "220"         \* SMTPConnectError, an SMTPResponseException
    THEN AfterTry(p, p.smtp, b.connect, "greeting", NoProbeResult)
    ELSE IF b.helo = "closed"         \* SMTPServerDisconnected: continue
    THEN NextCandidate(p, p.i, "None", "Connection unexpectedly closed")
    ELSE IF b.helo # "250"            \* SMTPHeloError, an SMTPResponseException
    THEN AfterTry(p, p.i, b.helo, "helo", NoProbeResult)
    ELSE IF b.mail # "250"
    THEN NextCandidate(p, p.i, b.mail, b.msg)
    ELSE IF RcptResult(b.rcpt, b.msg) # NoProbeResult
    THEN AfterTry(p, p.i, p.error_code, p.error_msg, RcptResult(b.rcpt, b.msg))
    ELSE AfterTry(p, p.i, b.rcpt, b.msg, NoProbeResult)

\* Candidate p.i is contacted and behaves as b.
Contact(p, b) ==
    TryCandidate([p EXCEPT !.contacted = Append(@, p.i), !.met = Append(@, b)], b)

\* The loop body run for the next candidate in mx.
ProbeCandidate(b) ==
    /\ probe.pc = "loop"
    /\ probe.i <= Len(probe.mx)
    /\ probe' = Contact(probe, b)
    /\ UNCHANGED probeArgs
    /\ UNCHANGED notProbeVars

\* The loop ran out of candidates: ResultCodeMessage('error', ...).
ProbeExhausted ==
    /\ probe.pc = "loop"
    /\ probe.i > Len(probe.mx)
    /\ probe' = [probe EXCEPT !.pc = "returned",
                    !.returned = ResultCodeMessage("error", probe.error_code,
                                                   probe.error_msg)]
    /\ UNCHANGED probeArgs
    /\ UNCHANGED notProbeVars

ProbeIdle ==
    /\ probeArgs = NoProbeArgs
    /\ probe = ProbeIdleState

\* The loop of mxprobe run to its end, every candidate behaving as b.
RECURSIVE ProbeLoop(_, _)
ProbeLoop(p, b) ==
    IF p.pc # "loop" THEN p
    ELSE IF p.i > Len(p.mx)
    THEN [p EXCEPT !.pc = "returned",
                   !.returned = ResultCodeMessage("error", p.error_code, p.error_msg)]
    ELSE ProbeLoop(Contact(p, b), b)

\* mxprobe(email, mx, your_email) as one call: where it ends.
mxprobe(email, mx, b) ==
    ProbeLoop(ProbeEntered(email, [is_str |-> FALSE, hosts |-> mx]), b)

(***************************************************************************)
(* mxsniff_and_probe, called by the owner of `cache` next to mxsniff.      *)
(***************************************************************************)
\* result['probe'] = ...: the dict with that key set.
WithProbe(result, pr) ==
    [query |-> result.query, domain |-> result.domain, match |-> result.match,
     mx |-> result.mx, providers |-> result.providers, public |-> result.public,
     canonical |-> result.canonical, probe |-> pr]

\* [mx[1] for mx in result['mx']]
ExchangeList(result) == [i \in 1..Len(result.mx) |-> result.mx[i][2]]

\* The rest of mxsniff_and_probe once mxsniff has come back as r and, if a
\* probe is asked for, mxprobe has ended as p.  The dict mxsniff returns
\* after a lookup is the very object it stored in the cache, so setting
\* 'probe' on it sets it on the cached record; after a cache hit it is a
\* copy.
AddProbe(r, p, email, probe_email) ==
    IF r.raised \/ ~probe_email
    THEN [path |-> r.path, queries |-> r.queries, raised |-> r.raised,
          result |-> r.result, error |-> r.error, cache |-> r.cache,
          probed |-> NoProbeResult]
    ELSE IF p.pc = "raised"
    THEN [path |-> r.path, queries |-> r.queries, raised |-> TRUE,
          result |-> NoResult,
          error |-> [exc |-> p.raised, cause |-> None, domain |-> <<>>],
          cache |-> r.cache, probed |-> NoProbeResult]
    ELSE [path |-> r.path, queries |-> r.queries, raised |-> FALSE,
          result |-> WithProbe(r.result, p.returned), error |-> NoError,
          cache |-> IF r.path = "cached" THEN r.cache
                    ELSE Store(r.cache, get_domain(email),
                               WithProbe(r.result, p.returned)),
          probed |-> p.returned]

\* The probe of mxsniff_and_probe: mxprobe on the exchanges of the result.
ProbeOf(r, email, b) == mxprobe(email, ExchangeList(r.result), b)

SniffThenProbe(r, email, probe_email, b) ==
    AddProbe(r, ProbeOf(r, email, b), email, probe_email)

\* mxsniff_and_probe(email, probe_email, cache=c, ...), every candidate
\* server behaving as b.
mxsniff_and_probe(email, probe_email, ignore_errors, c, use_static_domains, dns, b) ==
    SniffThenProbe(mxsniff(email, ignore_errors, TRUE, c, use_static_domains, dns),
                   email, probe_email, b)

\* The calls made by a caller who hands one cache to both functions: an
\* address, its bare domain and another domain, resolved through DNS.
SharedQueries ==
    { MkQuery("email", "Name", <<"A", ".", "b", "+", "t">>, <<"Gmail", "com">>),
      MkQuery("domain", "", <<>>, <<"gmail", "com">>),
      MkQuery("domain", "", <<>>, <<"google", "com">>) }
SharedDns ==
    { MkAnswer(<< <<10, <<"smtp", "google", "com">> >> >>),
      MkDnsError("Timeout") }
SharedServers ==
    { Server("220", "250", "250", "250", "ok"),
      Server("220", "250", "250", "550", "#5.1.1 unknown"),
      Server("554", "250", "250", "250", "ok") }

\* One call of mxsniff_and_probe by the caller that owns `cache`.
SniffAndProbe(q, probe_email, dns, b) ==
    /\ Len(history) < MaxCalls
    /\ \E r \in {mxsniff_and_probe(q, probe_email, FALSE, cache, FALSE, dns, b)} :
        /\ call' = [fn |-> "mxsniff_and_probe", query |-> q,
                    ignore_errors |-> FALSE, use_cache |-> TRUE,
                    use_static_domains |-> FALSE, probe_email |-> probe_email]
        /\ outcome' = [path |-> r.path, queries |-> r.queries,
                       raised |-> r.raised, result |-> r.result,
                       error |-> r.error,
                       dns |-> IF r.queries = 1 THEN dns ELSE NoDns,
                       probed |-> r.probed]
        /\ cacheBefore' = cache
        /\ cache' = r.cache
        /\ history' = Append(history,
                          [domain |-> get_domain(q), use_cache |-> TRUE,
                           path |-> r.path, queries |-> r.queries,
                           raised |-> r.raised])
        /\ UNCHANGED notSniffVars

\* mxsniff_and_probe answered from the cache.
SniffAndProbeLocal(q, probe_email, b) ==
    /\ ~AsksResolver(q, TRUE, FALSE)
    /\ SniffAndProbe(q, probe_email, MkDnsError("Timeout"), b)

\* mxsniff_and_probe resolving the domain through DNS.
SniffAndProbeDns(q, probe_email, dns, b) ==
    /\ AsksResolver(q, TRUE, FALSE)
    /\ SniffAndProbe(q, probe_email, dns, b)

(***************************************************************************)
(* mxbulksniff: a generator over `items` with a cache of its own.          *)
(***************************************************************************)
BulkItemLists == UNION {[1..n -> Queries] : n \in 0..MaxItems}

BulkIdleState ==
    [pc |-> "idle", items |-> <<>>, ignore_errors |-> TRUE, pos |-> 1,
     cache |-> <<>>, yielded |-> <<>>, queried |-> <<>>]

\* The generator as created by mxbulksniff(items, ignore_errors): nothing
\* has run yet; `cache = {}` comes first when it is resumed.
BulkCreated(items, ignore_errors) ==
    [BulkIdleState EXCEPT !.pc = "running", !.items = items,
                          !.ignore_errors = ignore_errors]

\* A call that does not hand the cache over.
BulkCallNoCache(i, ignore_errors, c, dns) ==
    mxsniff(i, ignore_errors, FALSE, c, TRUE, dns)

\* mxsniff(i, ignore_errors, cache)
BulkCall(i, ignore_errors, c, dns) ==
    mxsniff(i, ignore_errors, TRUE, c, TRUE, dns)

\* Whether the call for the next item will ask the resolver.
BulkAsksResolver ==
    /\ get_domain(bulk.items[bulk.pos]) \notin DOMAIN bulk.cache
    /\ ~UseStatic(TRUE, get_domain(bulk.items[bulk.pos]))

\* The generator resumed for its next item: it yields the result of mxsniff
\* or, if mxsniff raises, ends with that exception.
BulkStep(dns) ==
    /\ bulk.pc = "running"
    /\ bulk.pos <= Len(bulk.items)
    /\ \E r \in {BulkCall(bulk.items[bulk.pos], bulk.ignore_errors, bulk.cache, dns)} :
          bulk' = [bulk EXCEPT
                     !.pc = IF r.raised THEN "raised" ELSE "running",
                     !.pos = IF r.raised THEN @ ELSE @ + 1,
                     !.cache = r.cache,
                     !.yielded = IF r.raised THEN @ ELSE Append(@, r.result),
                     !.queried = IF r.queries = 1
                                 THEN Append(@, get_domain(bulk.items[bulk.pos]))
                                 ELSE @]
    /\ UNCHANGED notBulkVars

\* The next item is answered by the cache or the static map.
BulkYieldLocal ==
    /\ bulk.pc = "running"
    /\ bulk.pos <= Len(bulk.items)
    /\ ~BulkAsksResolver
    /\ BulkStep(MkDnsError("NoAnswer"))

\* The next item is resolved through DNS, which answers or fails as `dns`.
BulkYieldDns(dns) ==
    /\ bulk.pc = "running"
    /\ bulk.pos <= Len(bulk.items)
    /\ BulkAsksResolver
    /\ BulkStep(dns)

\* The loop over items ends: the generator is exhausted.
BulkExhausted ==
    /\ bulk.pc = "running"
    /\ bulk.pos > Len(bulk.items)
    /\ bulk' = [bulk EXCEPT !.pc = "done"]
    /\ UNCHANGED notBulkVars

BulkIdle == bulk = BulkIdleState

(***************************************************************************)
(* Specifications.                                                         *)
(***************************************************************************)
SniffInit ==
    /\ cache = <<>>
    /\ cacheBefore = <<>>
    /\ call = NoCall
    /\ outcome = NoOutcome
    /\ history = <<>>

DictInit ==
    /\ inserted = <<>>
    /\ lookupKey = <<>>
    /\ lookupResult = NoLookup

\* The module as imported: provider_mx is populated, the caller's cache is
\* a fresh dict.
Init ==
    /\ tree = provider_mx
    /\ DictInit
    /\ SniffInit
    /\ CanonIdle
    /\ ProbeIdle
    /\ BulkIdle

Next ==
    \/ \E q \in Queries, ie \in BOOLEAN, uc \in BOOLEAN, us \in BOOLEAN :
           SniffLocal(q, ie, uc, us)
    \/ \E q \in Queries, ie \in BOOLEAN, uc \in BOOLEAN, us \in BOOLEAN,
          dns \in DnsOutcomes :
           SniffDns(q, ie, uc, us, dns)

Spec == Init /\ [][Next]_vars

\* A WildcardDomainDict() of its own.
InitDict ==
    /\ tree = EmptyTree
    /\ DictInit
    /\ SniffInit
    /\ CanonIdle
    /\ ProbeIdle
    /\ BulkIdle

NextDict ==
    \/ \E k \in DictPatterns, v \in DictValues : SetItem(k, v)
    \/ \E k \in DictHostnames : GetItem(k)
    \/ \E k \in DictHostnames : Get(k)

SpecDict == InitDict /\ [][NextDict]_vars

\* A caller about to canonicalise one address.
InitCanon ==
    /\ tree = provider_mx
    /\ DictInit
    /\ SniffInit
    /\ canonIn \in CanonInputs
    /\ canonOut = NotReturned
    /\ ProbeIdle
    /\ BulkIdle

NextCanon == Canonicalize

SpecCanon == InitCanon /\ [][NextCanon]_vars

\* One call of mxprobe, from its entry to its return.
InitProbe == Init

NextProbe ==
    \/ \E email \in ProbeEmails, mx \in MxArguments : ProbeBegin(email, mx)
    \/ \E b \in ServerBehaviours : ProbeCandidate(b)
    \/ ProbeExhausted

SpecProbe == InitProbe /\ [][NextProbe]_vars

\* mxsniff and mxsniff_and_probe called in any order with one cache.
InitShared == Init

NextShared ==
    \/ \E q \in SharedQueries : SniffLocal(q, FALSE, TRUE, FALSE)
    \/ \E q \in SharedQueries, dns \in SharedDns : SniffDns(q, FALSE, TRUE, FALSE, dns)
    \/ \E q \in SharedQueries, pe \in BOOLEAN, b \in SharedServers :
           SniffAndProbeLocal(q, pe, b)
    \/ \E q \in SharedQueries, pe \in BOOLEAN, dns \in SharedDns, b \in SharedServers :
           SniffAndProbeDns(q, pe, dns, b)

SpecShared == InitShared /\ [][NextShared]_vars

\* A generator made by mxbulksniff and consumed to its end.
InitBulk ==
    /\ tree = provider_mx
    /\ DictInit
    /\ SniffInit
    /\ CanonIdle
    /\ ProbeIdle
    /\ bulk \in {BulkCreated(items, ie) : items \in BulkItemLists, ie \in BOOLEAN}

NextBulk ==
    \/ BulkYieldLocal
    \/ \E dns \in DnsOutcomes : BulkYieldDns(dns)
    \/ BulkExhausted

SpecBulk == InitBulk /\ [][NextBulk]_vars

(***************************************************************************)
(* Properties of WildcardDomainDict (checked under SpecDict).              *)
(***************************************************************************)
\* The labels of a name as DNS reads them: the non-empty dot-separated
\* parts, compared without regard to case.
DnsLabels(name) == SelectSeq(Lower(name), NonEmptyLabel)

\* Pattern p matches hostname h label for label.
PatternMatches(p, h) ==
    LET pl == DnsLabels(p)
        hl == DnsLabels(h)
    IN  /\ Len(pl) = Len(hl)
        /\ \A i \in 1..Len(pl) : pl[i] = "*" \/ pl[i] = hl[i]

SamePattern(p, q) == DnsLabels(p) = DnsLabels(q)

HasWildcard(p) == \E i \in 1..Len(p) : p[i] = "*"

\* The value the dict should hold for pattern p: that of its last insertion.
FinalValue(p) ==
    LET idx == {i \in 1..Len(inserted) : SamePattern(inserted[i].key, p)}
        lastI == CHOOSE i \in idx : \A j \in idx : j <= i
    IN  inserted[lastI].value

LookupDone == lookupResult # NoLookup
LookupFailed == lookupResult \in {KeyError, None}

\* The patterns inserted so far are exactly those of `ps`.
InsertedExactly(ps) ==
    /\ \A i \in 1..Len(inserted) : \E p \in ps : SamePattern(inserted[i].key, p)
    /\ \A p \in ps : \E i \in 1..Len(inserted) : SamePattern(inserted[i].key, p)

StarExampleCom == <<"*", "example", "com">>
StarStarExampleCom == <<"*", "*", "example", "com">>

\* C3: a lookup succeeds whenever some inserted pattern matches the
\* hostname label for label, and a pattern equal to the hostname wins over
\* a wildcard pattern.
C3_LookupFindsEveryMatch ==
    LookupDone =>
        /\ (\E i \in 1..Len(inserted) : PatternMatches(inserted[i].key, lookupKey))
               => ~LookupFailed
        /\ \A i \in 1..Len(inserted) :
               SamePattern(inserted[i].key, lookupKey)
                   => lookupResult = FinalValue(inserted[i].key)

\* C4: a '*' label matches exactly one hostname label.  A lookup returns a
\* value only if a pattern inserted with that value has as many labels as
\* the hostname, each '*' or equal to the hostname's; with only
\* '*.example.com' inserted, 'mail.example.com' finds it while 'example.com'
\* and 'a.b.example.com' fail; with '*.*.example.com' also inserted,
\* 'a.b.example.com' finds that one.
C4_WildcardMatchesOneLabel ==
    LookupDone =>
        /\ ~LookupFailed =>
               \E i \in 1..Len(inserted) :
                   /\ PatternMatches(inserted[i].key, lookupKey)
                   /\ inserted[i].value = lookupResult
        /\ InsertedExactly({StarExampleCom}) =>
               /\ lookupKey = <<"mail", "example", "com">>
                      => lookupResult = FinalValue(StarExampleCom)
               /\ lookupKey \in {<<"example", "com">>, <<"a", "b", "example", "com">>}
                      => LookupFailed
        /\ InsertedExactly({StarExampleCom, StarStarExampleCom}) =>
               /\ lookupKey = <<"a", "b", "example", "com">>
                      => lookupResult = FinalValue(StarStarExampleCom)
               /\ lookupKey = <<"mail", "example", "com">>
                      => lookupResult = FinalValue(StarExampleCom)

\* '*.example.com' -> P and '*.*.example.com' -> Q are inserted and
\* get('a.b.example.com') has returned Q.
C4_Witness ==
    /\ inserted = << [key |-> StarExampleCom, value |-> "P"],
                     [key |-> StarStarExampleCom, value |-> "Q"] >>
    /\ lookupKey = <<"a", "b", "example", "com">>
    /\ lookupResult = "Q"

\* One trailing dot removed, if there is one.
StripTrailingDot(s) ==
    IF Len(s) >= 2 /\ s[Len(s)] = "" THEN SubSeq(s, 1, Len(s) - 1) ELSE s

\* h equals p case-insensitively, ignoring one optional trailing dot.
EqualNames(h, p) == Lower(StripTrailingDot(h)) = Lower(StripTrailingDot(p))

\* The value stored for p: that of the last insertion of a key equal to p.
StoredValue(p) ==
    LET idx == {i \in 1..Len(inserted) : EqualNames(inserted[i].key, p)}
        lastI == CHOOSE i \in idx : \A j \in idx : j <= i
    IN  inserted[lastI].value

\* C5: in a dict of wildcard-free patterns, a lookup of h returns the value
\* stored for p if and only if h equals p case-insensitively, ignoring one
\* optional trailing dot.
C5_ExactMatchIffEqual ==
    (LookupDone /\ \A i \in 1..Len(inserted) : ~HasWildcard(inserted[i].key)) =>
        /\ ~LookupFailed <=>
               \E i \in 1..Len(inserted) : EqualNames(lookupKey, inserted[i].key)
        /\ \A i \in 1..Len(inserted) :
               EqualNames(lookupKey, inserted[i].key)
                   => lookupResult = StoredValue(inserted[i].key)

\* The dict that a sequence of insertions into an empty dict leaves.
RECURSIVE BuildTree(_, _)
BuildTree(ins, n) ==
    IF n = 0 THEN EmptyTree
    ELSE SetItemTree(BuildTree(ins, n - 1), ins[n].key, ins[n].value)

\* The final value of each distinct pattern of a sequence of insertions,
\* patterns being the same when equal up to case and a trailing dot.
FinalValues(ins) ==
    {<<Lower(StripTrailingDot(ins[i].key)), ins[i].value>> : i \in
        {i \in 1..Len(ins) :
            \A j \in (i + 1)..Len(ins) : ~EqualNames(ins[j].key, ins[i].key)}}

\* C17: the result of every lookup depends only on the final value inserted
\* for each distinct pattern: any reordering of the insertions that keeps
\* those final values gives the same result for every key, and a lookup of
\* an inserted wildcard-free pattern gives the value of its last insertion.
C17_InsertionOrderIrrelevant ==
    /\ \A perm \in Permutations(1..Len(inserted)) :
          LET ins == [i \in 1..Len(inserted) |-> inserted[perm[i]]]
          IN  FinalValues(ins) = FinalValues(inserted) =>
                  \A h \in DictHostnames \cup DictPatterns :
                      DictGet(BuildTree(ins, Len(ins)), h, None) = DictGet(tree, h, None)
    /\ \A i \in 1..Len(inserted) :
          ~HasWildcard(inserted[i].key) =>
              DictGet(tree, inserted[i].key, None) = StoredValue(inserted[i].key)

(***************************************************************************)
(* Properties of mxsniff (checked under Spec).  They speak of the last     *)
(* call: its arguments in `call`, what it did in `outcome`, and the cache  *)
(* before and after it.                                                    *)
(***************************************************************************)
Called == call.query.kind # "none"
Returned == Called /\ ~outcome.raised
CallDomain == get_domain(call.query)
WasCached == call.use_cache /\ CallDomain \in DOMAIN cacheBefore
Res == outcome.result

\* The exchange hostnames of a result's mx list.
Exchanges(r) == {r.mx[i][2] : i \in 1..Len(r.mx)}

\* The reserved label the precedence self > nullmx > unknown > nomx gives.
ExpectedLabel(r) ==
    IF registered_domain(r.domain) \in {registered_domain(h) : h \in Exchanges(r)}
    THEN "self"
    ELSE IF r.mx # <<>> /\ r.mx[1][2] = Root THEN "nullmx"
    ELSE IF r.mx # <<>> THEN "unknown"
    ELSE "nomx"

\* The lowest preference value of a result's mx list is that of its head.
HeadIsLowest(r) == \A i \in 1..Len(r.mx) : r.mx[1][1] <= r.mx[i][1]

\* C1: when no known provider is found for the domain, the match list is
\* exactly one reserved label, chosen by the precedence self > nullmx >
\* unknown > nomx over the result's own domain and MX answers, the head of
\* the mx list being the lowest-preference answer; the match list is never
\* empty.
C1_ReservedLabelPrecedence ==
    Returned =>
        /\ Res.match # <<>>
        /\ HeadIsLowest(Res)
        /\ (outcome.path = "dns"
              /\ \A h \in Exchanges(Res) : DictGet(tree, h, None) = None)
               => Res.match = <<ExpectedLabel(Res)>>
        /\ Res.providers = <<>> => Res.match = <<ExpectedLabel(Res)>>

\* google.com answered by a null MX and a host of its own at the same
\* preference: self wins over nullmx.
C1_Witness ==
    /\ Returned
    /\ outcome.path = "dns"
    /\ Res.domain = <<"google", "com">>
    /\ Len(Res.mx) = 2
    /\ Res.mx[1][2] = Root
    /\ Res.match = <<"self">>

\* C2: whatever the queried domain, if its only MX target is '.', the
\* match is ['nullmx'].
C2_NullMxAlways ==
    (Returned /\ outcome.path = "dns"
        /\ Res.mx # <<>> /\ \A h \in Exchanges(Res) : h = Root)
        => Res.match = <<"nullmx">>

\* C6: with use_static_domains set and the domain in the static map and not
\* cached, the call returns match = [that provider] with an empty mx list
\* and asks the resolver nothing; with use_static_domains unset, the same
\* domain is resolved through DNS.
C6_StaticShortcut ==
    (Called /\ ~WasCached /\ CallDomain \in DOMAIN provider_domains) =>
        IF call.use_static_domains
        THEN /\ Returned
             /\ Res.match = <<provider_domains[CallDomain]>>
             /\ Res.mx = <<>>
             /\ outcome.queries = 0
        ELSE /\ outcome.queries = 1
             /\ outcome.path = "dns"

\* gmail.com answered from the static map.
C6_Witness ==
    /\ Called /\ ~WasCached
    /\ call.use_static_domains
    /\ outcome.path = "static"
    /\ Res.domain = <<"gmail", "com">>
    /\ Res.match = <<"google-gmail">>

\* Every MX pattern of the provider table.
AllMxPatterns ==
    UNION { {all_providers[n].mx[j] : j \in 1..Len(all_providers[n].mx)} :
            n \in DOMAIN all_providers }

\* C7: if at least one MX hostname matches a known provider pattern, no
\* reserved label appears in the match list.
C7_ProviderMatchExcludesReserved ==
    (Returned /\ outcome.path = "dns"
        /\ \E h \in Exchanges(Res) : \E p \in AllMxPatterns : PatternMatches(p, h))
        => \A i \in 1..Len(Res.match) : Res.match[i] \notin ReservedLabels

\* The canonical form of a result's own query under the flags of its first
\* matched provider.
OwnCanonical(r) ==
    LET f == canonical_flags(r.match)
    IN  canonical_email(r.query, f.lowercase, f.strip_periods, f.substitute_domains)

\* C8: in every returned result, fresh or served from the cache, canonical
\* is the canonical form of the result's own query under the flags of the
\* first matched provider, and is absent exactly when the query is not a
\* parseable address.
C8_CanonicalOfOwnQuery ==
    Returned =>
        /\ Res.canonical = OwnCanonical(Res)
        /\ Res.canonical = Absent <=> ~is_email(parseaddr(Res.query))

\* C9: on a cache hit the call returns the cached record with its query
\* replaced by the current input, asks the resolver nothing and leaves the
\* cache, and so the entry and its stored query, as it was.
C9_CacheHitCopies ==
    (Called /\ WasCached) =>
        /\ Returned
        /\ Res = [cacheBefore[CallDomain] EXCEPT !.query = call.query]
        /\ outcome.queries = 0
        /\ cache = cacheBefore

\* A hit whose query differs from the one stored with the entry.
C9_Witness ==
    /\ Called /\ WasCached
    /\ outcome.path = "cached"
    /\ call.query # cacheBefore[CallDomain].query
    /\ cache[CallDomain].query = cacheBefore[CallDomain].query

\* The calls made with the cache for domain d, in order.
CacheCalls(d) == {i \in 1..Len(history) : history[i].use_cache /\ history[i].domain = d}
FirstOf(S) == CHOOSE i \in S : \A j \in S : i <= j
Domains == {get_domain(q) : q \in Queries}

\* The MX queries issued by the first two calls made with the cache for d.
QueriesOfFirstTwo(d) ==
    LET i == FirstOf(CacheCalls(d))
        j == FirstOf(CacheCalls(d) \ {i})
    IN  history[i].queries + history[j].queries

\* C10 as stated: two calls with the same cache for the same domain issue
\* exactly one MX query in total.
C10_ExactlyOneQuery ==
    \A d \in Domains :
        Cardinality(CacheCalls(d)) >= 2 => QueriesOfFirstTwo(d) = 1

\* C10 amended: two calls with the same cache (which did not hold the domain
\* before) for the same domain, the first of which returns, issue exactly
\* one MX query in total when the first resolved the domain through DNS and
\* none when it took the static shortcut.
C10_OneQueryUnlessStatic ==
    \A d \in Domains :
        (Cardinality(CacheCalls(d)) >= 2 /\ ~history[FirstOf(CacheCalls(d))].raised)
            => QueriesOfFirstTwo(d) =
                   IF history[FirstOf(CacheCalls(d))].path = "static" THEN 0 ELSE 1

\* Two calls with the cache for google.com: the first asked the resolver,
\* the second was served from the cache.
C10_Witness ==
    /\ Len(history) >= 2
    /\ history[1].use_cache /\ history[2].use_cache
    /\ history[1].domain = <<"google", "com">>
    /\ history[2].domain = <<"google", "com">>
    /\ history[1].path = "dns" /\ ~history[1].raised
    /\ history[2].path = "cached"

\* C11: whenever the MX query ends in NXDOMAIN, NoAnswer or NoNameservers
\* (whatever ignore_errors is), or in another DNS fault while ignore_errors
\* is set, the call does not raise and returns mx = [] and match = ['nomx'].
C11_ZeroResultsAreNoMx ==
    (Called /\ (\/ outcome.dns.kind \in {"NoAnswer", "NXDOMAIN", "NoNameservers"}
                \/ outcome.dns.kind = "Timeout" /\ call.ignore_errors))
        => /\ ~outcome.raised
           /\ Res.mx = <<>>
           /\ Res.match = <<"nomx">>
           /\ outcome.error = NoError

\* A timeout that is swallowed, and an NXDOMAIN met without ignore_errors.
C11_Witness ==
    /\ Called
    /\ \/ outcome.dns.kind = "Timeout" /\ call.ignore_errors
       \/ outcome.dns.kind = "NXDOMAIN" /\ ~call.ignore_errors
    /\ Res.match = <<"nomx">>

\* C12: when the MX query fails with another DNS fault and ignore_errors is
\* not set, the call raises MxLookupError carrying the cause and the domain,
\* returns no result and leaves the caller's cache as it was, without an
\* entry for that domain.
C12_SurfacedFailure ==
    (Called /\ outcome.dns.kind = "Timeout" /\ ~call.ignore_errors)
        => /\ outcome.raised
           /\ outcome.error = [exc |-> "MxLookupError", cause |-> "Timeout",
                               domain |-> CallDomain]
           /\ Res = NoResult
           /\ cache = cacheBefore
           /\ call.use_cache => CallDomain \notin DOMAIN cache

\* A surfaced failure of a call made with a cache that already holds
\* another domain.
C12_Witness ==
    /\ Called /\ outcome.raised
    /\ call.use_cache
    /\ cacheBefore # <<>>
    /\ outcome.error.domain = CallDomain

\* The providers of the table that a result's match list names, and whether
\* one of them is flagged public.
MatchedPublic(r) ==
    \E i \in 1..Len(r.match) :
        /\ r.match[i] \in DOMAIN all_providers
        /\ all_providers[r.match[i]].public

\* C13: in every result, public is true exactly when the resolved domain is
\* in the public-domain set or a matched provider is flagged public; so it
\* is false for a reserved-label match on a domain outside that set.
C13_PublicFlag ==
    Returned =>
        /\ Res.public <=> (Res.domain \in public_domains \/ MatchedPublic(Res))
        /\ (Res.match[1] \in ReservedLabels /\ Res.domain \notin public_domains)
               => ~Res.public

\* gmail.com resolved through DNS to an unknown exchange: the flag comes
\* from the public-domain set alone.
C13_Witness ==
    /\ Returned
    /\ outcome.path = "dns"
    /\ Res.domain = <<"gmail", "com">>
    /\ Res.match = <<"unknown">>
    /\ Res.public

\* The provider the lookup structure gives for the i-th exchange of a
\* result's mx list, and the positions where a provider shows up first.
ProviderOfExchange ==
    [h \in {SortedHostnames[i] : i \in 1..Len(SortedHostnames)} |->
        DictGet(provider_mx, h, None)]
LookedUp(r, i) == ProviderOfExchange[r.mx[i][2]]
FirstSeen(r) ==
    {i \in 1..Len(r.mx) :
        LookedUp(r, i) # None /\ \A j \in 1..(i - 1) : LookedUp(r, j) # LookedUp(r, i)}

\* The position in FirstSeen(r) that has k - 1 positions of it before it.
NthFirstSeen(r, k) ==
    CHOOSE i \in FirstSeen(r) : Cardinality({j \in FirstSeen(r) : j < i}) = k - 1

\* The other orders in which the resolver could have handed over the same
\* records.
Reorderings ==
    [dns \in DnsOutcomes |->
        {o \in DnsOutcomes :
            o.kind = "answer" /\ LoweredAnswers(o.rdata) = LoweredAnswers(dns.rdata)}]
SameRecords(dns) == Reorderings[dns]

\* C18: after a successful MX resolution the mx list holds the answers with
\* lowercased hostnames in ascending (preference, hostname) order; the match
\* list holds each provider found once, in order of first occurrence along
\* that list, with the providers list parallel to it; the result is the
\* same for every order in which the resolver returns the records; and a
\* reserved-label match comes with an empty providers list.
C18_SortedDedupedParallel ==
    /\ (Called /\ outcome.dns.kind = "answer") =>
          /\ Returned
          /\ Len(Res.mx) = Len(outcome.dns.rdata)
          /\ {Res.mx[i] : i \in 1..Len(Res.mx)} = LoweredAnswers(outcome.dns.rdata)
          /\ \A i \in 1..Len(Res.mx) : Res.mx[i][2] = Lower(Res.mx[i][2])
          /\ \A i \in 1..(Len(Res.mx) - 1) : TupleLess(Res.mx[i], Res.mx[i + 1])
          /\ FirstSeen(Res) # {} =>
                /\ Len(Res.match) = Cardinality(FirstSeen(Res))
                /\ \A k \in 1..Len(Res.match) :
                       Res.match[k] = LookedUp(Res, NthFirstSeen(Res, k))
          /\ \A o \in SameRecords(outcome.dns) :
                 mxsniff(call.query, call.ignore_errors, FALSE, <<>>,
                         call.use_static_domains, o).result = Res
    /\ Returned =>
          /\ \A i, j \in 1..Len(Res.match) : Res.match[i] = Res.match[j] => i = j
          /\ IF Res.match[1] \in ReservedLabels
             THEN Res.providers = <<>>
             ELSE /\ Len(Res.providers) = Len(Res.match)
                  /\ \A i \in 1..Len(Res.match) :
                         Res.providers[i].name = Res.match[i]

\* Three records handed over out of order, two of them of the same
\* provider: the match lists that provider once, ahead of the other.
C18_Witness ==
    /\ Called /\ outcome.dns.kind = "answer"
    /\ Len(outcome.dns.rdata) = 3
    /\ outcome.dns.rdata[1][1] > outcome.dns.rdata[2][1]
    /\ Res.mx[1][2] = <<"gmail-smtp-in", "l", "google", "com">>
    /\ Res.mx[2][2] = <<"aspmx", "l", "google", "com">>
    /\ Res.match = <<"google-gmail", "google-apps">>
    /\ Len(Res.providers) = 2

(***************************************************************************)
(* Properties of canonical_email (checked under SpecCanon).                *)
(***************************************************************************)
\* The mailbox read once from the left from position i: stop at the first
\* '+', drop each '.' when strip_periods, lowercase each character kept when
\* lowercase.
RECURSIVE ExpectedMailbox(_, _, _, _)
ExpectedMailbox(m, i, lowercase, strip_periods) ==
    IF i > Len(m) \/ m[i] = "+" THEN <<>>
    ELSE IF m[i] = "." /\ strip_periods
    THEN ExpectedMailbox(m, i + 1, lowercase, strip_periods)
    ELSE <<IF lowercase THEN LowerChar(m[i]) ELSE m[i]>>
         \o ExpectedMailbox(m, i + 1, lowercase, strip_periods)

ExpectedDomain(d, substitute_domains) ==
    IF Lower(d) \in DOMAIN substitute_domains
    THEN substitute_domains[Lower(d)] ELSE Lower(d)

\* C14: for a valid address canonical_email returns M@D, M being the text
\* before the '@' cut at its first '+', without its '.' iff strip_periods,
\* lowercased iff lowercase, and D the lowercased domain, replaced when it
\* is a key of substitute_domains; 'Name <a.b+tag@Example.com>' with both
\* flags gives 'ab@example.com'; for an invalid address it returns absent
\* and does not raise.
C14_CanonicalForm ==
    canonOut.done =>
        /\ ~canonOut.raised
        /\ IF is_email(parseaddr(canonIn.email))
           THEN canonOut.value =
                    [mailbox |-> ExpectedMailbox(canonIn.email.mailbox, 1,
                                     canonIn.lowercase, canonIn.strip_periods),
                     domain |-> ExpectedDomain(canonIn.email.host,
                                     canonIn.substitute_domains)]
           ELSE canonOut.value = Absent
        /\ (canonIn.email = ExampleAddress /\ canonIn.lowercase
               /\ canonIn.strip_periods /\ canonIn.substitute_domains = <<>>)
               => canonOut.value = [mailbox |-> <<"a", "b">>,
                                    domain |-> <<"example", "com">>]

\* A mixed-case address with a period and a plus tag, canonicalised with
\* lowercase unset and a substitution that applies.
C14_Witness ==
    /\ canonOut.done
    /\ canonIn.email.mailbox = <<"A", ".", "+">>
    /\ canonIn.email.host = <<"GoogleMail", "com">>
    /\ ~canonIn.lowercase /\ ~canonIn.strip_periods
    /\ canonIn.substitute_domains # <<>>
    /\ canonOut.value = [mailbox |-> <<"A", ".">>, domain |-> <<"gmail", "com">>]

\* The returned text 'mailbox@domain' handed back as the email argument.
AsEmail(value) == MkQuery("email", "", value.mailbox, value.domain)

\* C21: whenever canonical_email returns a value, for a valid address and
\* any flags, the mailbox before the '@' of the returned address is not
\* empty, and canonical_email applied to the returned address with the same
\* flags and substitution map returns it unchanged.
C21_CanonicalIsFixedPoint ==
    (canonOut.done /\ canonOut.value # Absent) =>
        /\ Len(canonOut.value.mailbox) > 0
        /\ canonical_email(AsEmail(canonOut.value), canonIn.lowercase,
               canonIn.strip_periods, canonIn.substitute_domains)
             = canonOut.value

(***************************************************************************)
(* Properties of mxprobe (checked under SpecProbe).                        *)
(***************************************************************************)
\* C15: an SMTP-layer error, a refused connection and a non-220 greeting
\* included, on the first or a later candidate, is caught for that
\* candidate; mxprobe never propagates an exception for it, and returns
\* 'error' only once every candidate has been tried.
C15_SmtpErrorsNeverPropagate ==
    /\ probe.pc # "raised"
    /\ (probe.pc = "returned" /\ probe.returned.result = "error")
          => Len(probe.contacted) = Len(probe.mx)

\* A server that, once contacted, answers RCPT TO with a code that settles
\* the probe: accepted, accepted unverified, or refused.
Definitive(b) ==
    /\ b.connect = "220" /\ b.helo = "250" /\ b.mail = "250"
    /\ b.rcpt \in {"250", "251", "252", "253"} \cup FailCodes

DefinitiveResults == {"pass", "pass-unverified", "fail", "soft-fail", "hard-fail"}

LastMet == probe.met[Len(probe.met)]

\* C19: mxprobe contacts the candidates in list order, each once, and stops
\* at the first that gives a definitive RCPT response, returning that
\* response and contacting no later server; for an invalid address it
\* returns 'invalid' and contacts no server.
C19_InOrderUntilDefinitive ==
    /\ Len(probe.contacted) <= Len(probe.mx)
    /\ \A k \in 1..Len(probe.contacted) : probe.contacted[k] = k
    /\ \A j \in 1..(Len(probe.met) - 1) : ~Definitive(probe.met[j])
    /\ (probe.met # <<>> /\ Definitive(LastMet)) =>
          /\ probe.pc = "returned"
          /\ probe.returned.result \in DefinitiveResults
          /\ probe.returned.code = LastMet.rcpt
          /\ probe.returned.message = LastMet.msg
    /\ (probe.pc = "returned" /\ probe.returned.result \in DefinitiveResults) =>
          probe.met # <<>> /\ Definitive(LastMet)
    /\ (probe.pc # "idle" /\ ~is_email(parseaddr(probeArgs.email))) =>
          /\ probe.pc = "returned"
          /\ probe.returned = ResultCodeMessage("invalid", "None", "None")
          /\ probe.contacted = <<>>

\* Two candidates, the first of which refuses the recipient for good: the
\* probe returns hard-fail and the second is never contacted.
C19_Witness ==
    /\ probe.pc = "returned"
    /\ Len(probe.mx) = 2
    /\ probe.contacted = <<1>>
    /\ probe.returned.result = "hard-fail"

(***************************************************************************)
(* Properties of mxbulksniff (checked under SpecBulk).                     *)
(***************************************************************************)
\* C16: with ignore_errors left at True, mxbulksniff yields one result per
\* item, in input order, the i-th with query equal to the i-th item, never
\* ends early, and asks the resolver at most once for each resolved domain.
C16_OneResultPerItem ==
    bulk.ignore_errors =>
        /\ bulk.pc # "raised"
        /\ Len(bulk.yielded) = bulk.pos - 1
        /\ bulk.pc = "done" => Len(bulk.yielded) = Len(bulk.items)
        /\ \A i \in 1..Len(bulk.yielded) : bulk.yielded[i].query = bulk.items[i]
        /\ \A i, j \in 1..Len(bulk.queried) :
               bulk.queried[i] = bulk.queried[j] => i = j
        /\ \A i \in 1..Len(bulk.queried) :
               \E k \in 1..Len(bulk.yielded) :
                   bulk.queried[i] = get_domain(bulk.items[k])

\* google.com given twice: two results, one MX query.
C16_Witness ==
    /\ bulk.pc = "done"
    /\ bulk.ignore_errors
    /\ bulk.items = << MkQuery("domain", "", <<>>, <<"google", "com">>),
                       MkQuery("domain", "", <<>>, <<"google", "com">>) >>
    /\ Len(bulk.yielded) = 2
    /\ bulk.queried = << <<"google", "com">> >>

(***************************************************************************)
(* Properties of mxsniff and mxsniff_and_probe on one cache (checked under *)
(* SpecShared).                                                            *)
(***************************************************************************)
SevenKeys ==
    {"canonical", "domain", "match", "mx", "providers", "public", "query"}

\* C20: a returned result carries a 'probe' entry only if that very call
\* probed (mxsniff_and_probe with a probe_email), and then it is the probe
\* made by that call; every other result has exactly the seven keys; and
\* no record in the cache is altered after it was stored.
C20_ProbeOnlyFromOwnCall ==
    /\ Returned =>
          IF call.fn = "mxsniff_and_probe" /\ call.probe_email
          THEN /\ DOMAIN Res = SevenKeys \cup {"probe"}
               /\ Res.probe = outcome.probed
          ELSE DOMAIN Res = SevenKeys
    /\ \A d \in DOMAIN cache : DOMAIN cache[d] = SevenKeys
    /\ \A d \in DOMAIN cacheBefore : cache[d] = cacheBefore[d]

====
